---- MODULE Spec2Model ----
(***************************************************************************)
(* Task tracking: the store (profiles, tasks, task_history with their row  *)
(* level security policies and the status-change trigger) and the client   *)
(* handlers that talk to it (AddTaskDialog, AddEmployeeDialog,             *)
(* EmployeeDashboard, EmployeeDetailsDialog, ManagerDashboard).            *)
(***************************************************************************)
EXTENDS Integers, Sequences, FiniteSets, TLC

\* ------------------------------------------------------------------ bounds
MaxUsers == 3
MaxTasks == 1
MaxHistory == 2
MaxTime == 1
MaxDay == 1
TicksPerDay == 2

\* ------------------------------------------------------------- value sets
NULL == "null"
None == <<>>
Some(t) == <<t>>

UserIdSeq == <<"u1", "u2", "u3", "u4", "u5", "u6">>
ProfileIdSeq == <<"p1", "p2", "p3", "p4", "p5", "p6">>
UserIds == {UserIdSeq[i] : i \in 1..MaxUsers}
ProfileIds == {ProfileIdSeq[i] : i \in 1..MaxUsers}
TaskIds == 1..MaxTasks
Times == 0..MaxTime
Days == 0..MaxDay

\* The last instant of the day rather than its first.
DateInstant_EndOfDay(d) == ((d + 1) * TicksPerDay) - 1

\* new Date("YYYY-MM-DD"): the instant at which that day begins
DateInstant(d) == d * TicksPerDay

user_role == {"manager", "employee"}
task_status == {"not_started", "in_progress", "finished"}

VARIABLES
  users,         \* auth.users: the identifiers that can sign in
  profiles,      \* public.profiles rows
  tasks,         \* public.tasks rows, in insertion order (id = position)
  task_history,  \* public.task_history rows, in insertion order
  now,           \* the server clock, now()
  view,          \* per signed-in user, the task list the dashboard holds (useState)
  call,          \* the most recent handler run: its inputs and what it showed
  stats          \* the figures a dashboard last rendered from its task list

vars == <<users, profiles, tasks, task_history, now, view, call, stats>>

\* ---------------------------------------------------------------- lookups
\* (SELECT id FROM public.profiles WHERE user_id = auth.uid())
ProfileIdOf(uid) ==
  IF \E p \in profiles : p.user_id = uid
  THEN (CHOOSE p \in profiles : p.user_id = uid).id
  ELSE NULL

\* The manager test answered from the roles as first stored (the seeded
\* manager), not from the profiles table as it is now.
IsManager_AsFirstStored(uid) == uid = "u1"

\* EXISTS (SELECT 1 FROM public.profiles WHERE user_id = auth.uid() AND role = 'manager')
IsManager(uid) == \E p \in profiles : p.user_id = uid /\ p.role = "manager"

HasProfile(uid) == \E p \in profiles : p.user_id = uid

\* useAuth().profile of a signed-in user that has one
ProfileOf(uid) == CHOOSE p \in profiles : p.user_id = uid

\* The role and active flag the store holds for uid (NULL without a profile).
RoleOf(uid) == IF HasProfile(uid) THEN ProfileOf(uid).role ELSE NULL
ActiveOf(uid) == HasProfile(uid) /\ ProfileOf(uid).is_active

\* ------------------------------------------------- row level security
profiles_select_using(uid, row) == TRUE

profiles_insert_check(uid) == IsManager(uid)

profiles_update_using(uid) == IsManager(uid)

\* Mutant: the tasks SELECT policy without the ownership test.
tasks_select_using_All(uid, row) == TRUE

tasks_select_using(uid, row) ==
  \/ row.assigned_to = ProfileIdOf(uid)
  \/ IsManager(uid)

\* Mutant: the tasks INSERT policy open to every signed-in user.
tasks_insert_check_Authenticated(uid) == uid # NULL

tasks_insert_check(uid) == IsManager(uid)

tasks_update_using(uid, row) ==
  \/ IsManager(uid)
  \/ row.assigned_to = ProfileIdOf(uid)

task_history_select_using(uid, h) ==
  \/ \E i \in DOMAIN tasks :
       /\ tasks[i].id = h.task_id
       /\ tasks_select_using(uid, tasks[i])
       /\ tasks[i].assigned_to = ProfileIdOf(uid)
  \/ IsManager(uid)

task_history_insert_check(uid) == uid # NULL

\* Mutant: the trigger logs (and stamps) on every update, changed or not.
log_task_status_change_Always(OldRow, NewRow, uid) ==
  [row |-> [NewRow EXCEPT !.completed_at =
              IF NewRow.status = "finished" THEN Some(now) ELSE None],
   inserts |-> << [task_id |-> NewRow.id,
                   old_status |-> OldRow.status,
                   new_status |-> NewRow.status,
                   changed_by |-> ProfileIdOf(uid),
                   changed_at |-> now] >>]

\* Mutant: the trigger records NEW.status as the old status.
log_task_status_change_LogsNewAsOld(OldRow, NewRow, uid) ==
  IF OldRow.status # NewRow.status
  THEN [row |-> [NewRow EXCEPT !.completed_at =
                   IF NewRow.status = "finished" THEN Some(now) ELSE None],
        inserts |-> << [task_id |-> NewRow.id,
                        old_status |-> NewRow.status,
                        new_status |-> NewRow.status,
                        changed_by |-> ProfileIdOf(uid),
                        changed_at |-> now] >>]
  ELSE [row |-> NewRow, inserts |-> <<>>]

\* Mutant: the trigger records 'not_started' as the old status of every
\* change.
log_task_status_change_OldIsNotStarted(OldRow, NewRow, uid) ==
  IF OldRow.status # NewRow.status
  THEN [row |-> [NewRow EXCEPT !.completed_at =
                   IF NewRow.status = "finished" THEN Some(now) ELSE None],
        inserts |-> << [task_id |-> NewRow.id,
                        old_status |-> "not_started",
                        new_status |-> NewRow.status,
                        changed_by |-> ProfileIdOf(uid),
                        changed_at |-> now] >>]
  ELSE [row |-> NewRow, inserts |-> <<>>]

\* Mutant: the trigger logs the change but stores the completed_at the
\* client sent.
log_task_status_change_KeepsClientStamp(OldRow, NewRow, uid) ==
  IF OldRow.status # NewRow.status
  THEN [row |-> NewRow,
        inserts |-> << [task_id |-> NewRow.id,
                        old_status |-> OldRow.status,
                        new_status |-> NewRow.status,
                        changed_by |-> ProfileIdOf(uid),
                        changed_at |-> now] >>]
  ELSE [row |-> NewRow, inserts |-> <<>>]

\* ------------------------------------------------------------ the trigger
\* BEFORE UPDATE ON public.tasks FOR EACH ROW: the row to store and the
\* task_history rows it inserts.
log_task_status_change(OldRow, NewRow, uid) ==
  IF OldRow.status # NewRow.status
  THEN [row |-> [NewRow EXCEPT !.completed_at =
                   IF NewRow.status = "finished" THEN Some(now) ELSE None],
        inserts |-> << [task_id |-> NewRow.id,
                        old_status |-> OldRow.status,
                        new_status |-> NewRow.status,
                        changed_by |-> ProfileIdOf(uid),
                        changed_at |-> now] >>]
  ELSE [row |-> NewRow, inserts |-> <<>>]

\* ------------------------------------------------------------- statements
\* The columns of `payload` written over `row` (UPDATE ... SET).
SetColumns(row, payload) ==
  [c \in DOMAIN row |-> IF c \in DOMAIN payload THEN payload[c] ELSE row[c]]

\* NOT NULL and REFERENCES constraints of public.tasks.
tasks_constraints_ok(row) ==
  /\ row.assigned_to # NULL /\ row.assigned_by # NULL
  /\ \E p \in profiles : p.id = row.assigned_to
  /\ \E p \in profiles : p.id = row.assigned_by

\* NOT NULL and REFERENCES constraints of public.task_history.
task_history_constraints_ok(h) ==
  /\ h.changed_by # NULL
  /\ \E p \in profiles : p.id = h.changed_by

\* Mutant: the row is written even when the trigger's insert fails, as if
\* the update and the audit insert were two separate requests.
UpdateTasks_NotAtomic(uid, id, payload, fault) ==
  LET hit == {i \in DOMAIN tasks :
                /\ tasks[i].id = id
                /\ tasks_select_using(uid, tasks[i])
                /\ tasks_update_using(uid, tasks[i])}
  IN IF hit = {}
     THEN [error |-> NULL, rows |-> 0, tasks |-> tasks, history |-> task_history]
     ELSE LET i == CHOOSE j \in hit : TRUE
              trig == log_task_status_change(tasks[i], SetColumns(tasks[i], payload), uid)
          IN IF trig.inserts # <<>> /\ fault
             THEN [error |-> "53000", rows |-> 1,
                   tasks |-> [tasks EXCEPT ![i] = trig.row],
                   history |-> task_history]
             ELSE [error |-> NULL, rows |-> 1,
                   tasks |-> [tasks EXCEPT ![i] = trig.row],
                   history |-> task_history \o trig.inserts]

\* Mutant: a status change keeps only its own entry in task_history, as if
\* the log held one row per task.
UpdateTasks_RewritesHistory(uid, id, payload, fault) ==
  LET hit == {i \in DOMAIN tasks :
                /\ tasks[i].id = id
                /\ tasks_select_using(uid, tasks[i])
                /\ tasks_update_using(uid, tasks[i])}
  IN IF hit = {}
     THEN [error |-> NULL, rows |-> 0, tasks |-> tasks, history |-> task_history]
     ELSE LET i == CHOOSE j \in hit : TRUE
              trig == log_task_status_change(tasks[i], SetColumns(tasks[i], payload), uid)
          IN IF trig.inserts # <<>> /\ fault
             THEN [error |-> "53000", rows |-> 0, tasks |-> tasks, history |-> task_history]
             ELSE [error |-> NULL, rows |-> 1,
                   tasks |-> [tasks EXCEPT ![i] = trig.row],
                   history |-> IF trig.inserts = <<>> THEN task_history
                               ELSE trig.inserts]

\* supabase.from('tasks').update(payload).eq('id', id) as user uid: one
\* statement, so the trigger's insert and the row write commit together or
\* not at all.  `fault` is a storage failure of the trigger's insert.  The
\* result holds the error (NULL when none), the number of rows written and
\* the tables after the statement.
UpdateTasks(uid, id, payload, fault) ==
  LET hit == {i \in DOMAIN tasks :
                /\ tasks[i].id = id
                /\ tasks_select_using(uid, tasks[i])
                /\ tasks_update_using(uid, tasks[i])}
      same == [error |-> NULL, rows |-> 0, tasks |-> tasks, history |-> task_history]
  IN IF hit = {} THEN same
     ELSE LET i == CHOOSE j \in hit : TRUE
              OldRow == tasks[i]
              trig == log_task_status_change(OldRow, SetColumns(OldRow, payload), uid)
              NewRow == trig.row
              error ==
                IF trig.inserts # <<>> /\ fault
                  THEN "53000"
                ELSE IF \E k \in DOMAIN trig.inserts :
                     ~ task_history_constraints_ok(trig.inserts[k])
                  THEN "23502"
                ELSE IF trig.inserts # <<>> /\ ~ task_history_insert_check(uid)
                  THEN "42501"
                ELSE IF ~ tasks_update_using(uid, NewRow)
                  THEN "42501"
                ELSE IF ~ tasks_constraints_ok(NewRow)
                  THEN "23503"
                ELSE NULL
          IN IF error # NULL
             THEN [same EXCEPT !.error = error]
             ELSE [error |-> NULL, rows |-> 1,
                   tasks |-> [tasks EXCEPT ![i] = NewRow],
                   history |-> task_history \o trig.inserts]

\* supabase.from('tasks').insert([row]) as user uid.
InsertTasks(uid, row) ==
  LET error ==
        IF ~ tasks_insert_check(uid) THEN "42501"
        ELSE IF ~ tasks_constraints_ok(row) THEN "23503"
        ELSE NULL
  IN IF error # NULL
     THEN [error |-> error, tasks |-> tasks]
     ELSE [error |-> NULL,
           tasks |-> Append(tasks,
             [id |-> Len(tasks) + 1,
              assigned_to |-> row.assigned_to,
              assigned_by |-> row.assigned_by,
              status |-> row.status,
              start_date |-> row.start_date,
              deadline_date |-> row.deadline_date,
              completed_at |-> None])]

\* supabase.auth.signUp({email: username@company.com, ...}): the account
\* created for the k-th username, or an error when that email is taken.
SignUp(k) ==
  IF UserIdSeq[k] \in users
  THEN [error |-> "user_already_exists", user |-> NULL, users |-> users]
  ELSE [error |-> NULL, user |-> UserIdSeq[k], users |-> users \cup {UserIdSeq[k]}]

\* UNIQUE (user_id) of public.profiles; the username is unique when the
\* account is, since the email is made from it.
profiles_constraints_ok(row) ==
  /\ row.user_id # NULL
  /\ \A p \in profiles : p.user_id # row.user_id

\* supabase.from('profiles').insert([row]) as user uid.
InsertProfiles(uid, row) ==
  LET error ==
        IF ~ profiles_insert_check(uid) THEN "42501"
        ELSE IF ~ profiles_constraints_ok(row) THEN "23505"
        ELSE NULL
  IN IF error # NULL
     THEN [error |-> error, profiles |-> profiles]
     ELSE [error |-> NULL,
           profiles |-> profiles \cup
             {[id |-> ProfileIdSeq[Cardinality(profiles) + 1],
               user_id |-> row.user_id,
               role |-> row.role,
               is_active |-> TRUE]}]

\* UPDATE public.profiles SET payload WHERE id = pid, as user uid.
UpdateProfiles(uid, pid, payload) ==
  LET hit == {p \in profiles : p.id = pid /\ profiles_select_using(uid, p)
                                          /\ profiles_update_using(uid)}
  IN IF hit = {}
     THEN [error |-> NULL, rows |-> 0, profiles |-> profiles]
     ELSE [error |-> NULL, rows |-> 1,
           profiles |-> {IF p \in hit THEN SetColumns(p, payload) ELSE p : p \in profiles}]

\* ------------------------------------------------------------------ reads
\* supabase.from('tasks').select('*') as user uid, over table tbl.
SelectTasks(uid, tbl) ==
  {i \in DOMAIN tbl : tasks_select_using(uid, tbl[i])}

\* supabase.from('profiles').select('*') as user uid.
SelectProfiles(uid) == {p \in profiles : profiles_select_using(uid, p)}

\* supabase.from('task_history').select('*') as user uid.
SelectTaskHistory(uid) ==
  {k \in DOMAIN task_history : task_history_select_using(uid, task_history[k])}

\* EmployeeDashboard.fetchTasks: .eq('assigned_to', profile.id)
EmployeeFetchTasks(uid, tbl) ==
  {i \in SelectTasks(uid, tbl) : tbl[i].assigned_to = ProfileIdOf(uid)}

\* ManagerDashboard.fetchTasks: every row the store returns
ManagerFetchTasks(uid, tbl) == SelectTasks(uid, tbl)

\* .order('deadline_date'): the rows ascending by deadline date (rows of
\* equal deadline in insertion order).
RECURSIVE OrderByDeadline(_, _)
OrderByDeadline(ids, tbl) ==
  IF ids = {} THEN <<>>
  ELSE LET first == CHOOSE i \in ids : \A j \in ids :
                      \/ tbl[i].deadline_date < tbl[j].deadline_date
                      \/ tbl[i].deadline_date = tbl[j].deadline_date /\ i <= j
       IN <<first>> \o OrderByDeadline(ids \ {first}, tbl)

\* .order('created_at', { ascending: false }): the rows latest created
\* first (created_at is the insertion instant, so a later row of the table
\* was created later).
RECURSIVE OrderByCreatedAtDesc(_, _)
OrderByCreatedAtDesc(ids, tbl) ==
  IF ids = {} THEN <<>>
  ELSE LET first == CHOOSE i \in ids : \A j \in ids : i >= j
       IN <<first>> \o OrderByCreatedAtDesc(ids \ {first}, tbl)

\* What setTasks(data) leaves in the dashboard: the listed tasks in the
\* order returned, each with the status it had.
Listing(order, tbl) ==
  [k \in DOMAIN order |-> [id |-> order[k], status |-> tbl[order[k]].status]]

\* The status user uid last saw for task id (NULL when it is not listed).
Seen(uid, id) ==
  IF \E k \in DOMAIN view[uid] : view[uid][k].id = id
  THEN view[uid][CHOOSE k \in DOMAIN view[uid] : view[uid][k].id = id].status
  ELSE NULL

\* ------------------------------------------------------ Number arithmetic
\* The figures are computed in IEEE 754 binary64 (a JavaScript Number).  A
\* Number other than zero is kept as [sig, exp] with sig = <<s2, s1, s0>>,
\* three limbs of 17, 18 and 18 bits whose 53 bits are the significand,
\* the first of them a one: it stands for
\*   (s2 * Limb^2 + s1 * Limb + s0) * 2^(exp - 52).
\* Counts of tasks are exact Numbers.
RECURSIVE Pow2(_)
Pow2(k) == IF k = 0 THEN 1 ELSE 2 * Pow2(k - 1)

Limb == Pow2(18)

\* Round to nearest, ties to even: the 53 bits kept, the first bit dropped
\* and whether any later dropped bit is set; a carry out of the significand
\* moves the exponent.
RoundToNearestEven(sig, guard, sticky, exp) ==
  LET up == guard = 1 /\ (sticky \/ (sig[3] % 2) = 1)
      s0 == sig[3] + (IF up THEN 1 ELSE 0)
      s1 == sig[2] + (s0 \div Limb)
      s2 == sig[1] + (s1 \div Limb)
  IN IF s2 = Pow2(17)
     THEN [sig |-> <<Pow2(16), 0, 0>>, exp |-> exp + 1]
     ELSE [sig |-> <<s2, s1 % Limb, s0 % Limb>>, exp |-> exp]

\* The least k with a * 2^k >= b.
RECURSIVE ShiftUp(_, _)
ShiftUp(a, b) == IF a >= b THEN 0 ELSE 1 + ShiftUp(2 * a, b)

\* a / b for counts 1 <= a <= b: long division of a * 2^k (in [b, 2b)) by
\* b, 16 + 18 + 18 bits after the leading one.
Divide(a, b) ==
  LET k == ShiftUp(a, b)
      n2 == (a * Pow2(k)) * Pow2(16)
      n1 == (n2 % b) * Limb
      n0 == (n1 % b) * Limb
      rem == n0 % b
      guard == IF 2 * rem >= b THEN 1 ELSE 0
      sticky == (2 * rem) - (guard * b) # 0
  IN RoundToNearestEven(<<n2 \div b, n1 \div b, n0 \div b>>, guard, sticky, 0 - k)

\* x * 100: the exact product limb by limb, then rounded back to 53 bits
\* (the product has 6 or 7 bits more).
TimesHundred(x) ==
  LET p0 == x.sig[3] * 100
      p1 == (x.sig[2] * 100) + (p0 \div Limb)
      p2 == (x.sig[1] * 100) + (p1 \div Limb)
      l0 == p0 % Limb
      l1 == p1 % Limb
      d == IF p2 >= Pow2(23) THEN 7 ELSE 6
      kept == << p2 \div Pow2(d),
                 ((p2 % Pow2(d)) * Pow2(18 - d)) + (l1 \div Pow2(d)),
                 ((l1 % Pow2(d)) * Pow2(18 - d)) + (l0 \div Pow2(d)) >>
      guard == (l0 \div Pow2(d - 1)) % 2
      sticky == (l0 % Pow2(d - 1)) # 0
  IN RoundToNearestEven(kept, guard, sticky, x.exp + d)

\* Math.round(x) for 0 < x <= 100: the nearest integer, a half going up.
MathRound(x) ==
  IF x.exp < 0 - 1 THEN 0
  ELSE IF x.exp = 0 - 1 THEN 1
  ELSE (x.sig[1] \div Pow2(16 - x.exp)) + ((x.sig[1] \div Pow2(15 - x.exp)) % 2)

\* Math.round((a / b) * 100) for counts 0 <= a <= b, b > 0.
RoundedPercent(a, b) ==
  IF a = 0 THEN 0 ELSE MathRound(TimesHundred(Divide(a, b)))

\* --------------------------------------------------------------- figures
\* The rows a component holds after a fetch returned the positions ids of
\* table tbl (the figures do not depend on their order).
Rows(ids, tbl) == [i \in ids |-> tbl[i]]

\* tasks.filter(task => task.status === 'finished' && task.completed_at)
completedTasks(rows) ==
  {k \in DOMAIN rows : rows[k].status = "finished" /\ rows[k].completed_at # None}

\* Every stamped finished task counts as on time.
onTimeTasks_All(rows) == completedTasks(rows)

\* completedTasks.filter(task =>
\*   new Date(task.completed_at) <= new Date(task.deadline_date))
onTimeTasks(rows) ==
  {k \in completedTasks(rows) :
     rows[k].completed_at[1] <= DateInstant(rows[k].deadline_date)}

\* getTaskStats of EmployeeDashboard and of EmployeeDetailsDialog (the same
\* code) over the component's tasks.
getTaskStats(rows) ==
  LET total == Cardinality(DOMAIN rows)
      completed == Cardinality({k \in DOMAIN rows : rows[k].status = "finished"})
      stamped == Cardinality(completedTasks(rows))
      onTime == Cardinality(onTimeTasks(rows))
  IN [onTimeRate |-> IF stamped > 0 THEN RoundedPercent(onTime, stamped) ELSE 0,
      completionRate |-> IF total > 0 THEN RoundedPercent(completed, total) ELSE 0]

\* tasks.filter(task => task.assigned_to === employeeId)
AssignedTo(employeeId, rows) ==
  [i \in {j \in DOMAIN rows : rows[j].assigned_to = employeeId} |-> rows[i]]

\* ManagerDashboard.getEmployeeProgress(employeeId).percentage
getEmployeeProgress(employeeId, rows) ==
  LET employeeTasks == AssignedTo(employeeId, rows)
      total == Cardinality(DOMAIN employeeTasks)
      completed == Cardinality({k \in DOMAIN employeeTasks :
                                  employeeTasks[k].status = "finished"})
  IN IF total > 0 THEN RoundedPercent(completed, total) ELSE 0

\* ManagerDashboard.getOnTimeCompletionRate(employeeId)
getOnTimeCompletionRate(employeeId, rows) ==
  LET employeeTasks == AssignedTo(employeeId, rows)
      stamped == Cardinality(completedTasks(employeeTasks))
      onTime == Cardinality(onTimeTasks(employeeTasks))
  IN IF stamped > 0 THEN RoundedPercent(onTime, stamped) ELSE 0

\* Dashboard: which dashboard a signed-in user gets.
ShowsManagerDashboard(uid) ==
  uid \in users /\ HasProfile(uid) /\ ProfileOf(uid).role = "manager"

ShowsEmployeeDashboard(uid) ==
  uid \in users /\ HasProfile(uid) /\ ProfileOf(uid).role # "manager"

\* ------------------------------------------------------------------- Init
NoCall ==
  [op |-> "none", uid |-> NULL, id |-> 0, status |-> NULL, seen |-> NULL,
   was |-> NULL, rows |-> 0, toast |-> NULL, description |-> NULL]

\* No figures rendered yet.
NoStats == [by |-> "none", completionRate |-> 0, onTimeRate |-> 0]

\* The two seeded accounts and their profiles; no tasks yet.
Init ==
  /\ users = {"u1", "u2"}
  /\ profiles = {[id |-> "p1", user_id |-> "u1", role |-> "manager", is_active |-> TRUE],
                 [id |-> "p2", user_id |-> "u2", role |-> "employee", is_active |-> TRUE]}
  /\ tasks = <<>>
  /\ task_history = <<>>
  /\ now = 0
  /\ view = [u \in UserIds |-> <<>>]
  /\ call = NoCall
  /\ stats = NoStats

\* What a handler run leaves in `call`: who ran it, as the store knew them
\* when it ran, on which task, and the store as it was.
CallOf(op, uid, id, status) ==
  [NoCall EXCEPT !.op = op, !.uid = uid, !.id = id, !.status = status,
                 !.seen = Seen(uid, id),
                 !.was = IF id \in DOMAIN tasks THEN tasks[id].status ELSE NULL]

Toast(error) == IF error # NULL THEN "Error" ELSE "Success"

\* ---------------------------------------------------------------- actions
\* Mutant: the client stamps completed_at whatever the new status is.
StatusPayload_AlwaysStamps(newStatus, clientNow) ==
  [status |-> newStatus, completed_at |-> Some(clientNow)]

\* The update both dashboards send: the new status and the client's own
\* completed_at (its clock when finished, null otherwise).
StatusPayload(newStatus, clientNow) ==
  [status |-> newStatus,
   completed_at |-> IF newStatus = "finished" THEN Some(clientNow) ELSE None]

\* EmployeeDashboard.updateTaskStatus, with the fetchTasks() it ends with.
EmployeeDashboard_updateTaskStatus(uid, taskId, newStatus, clientNow, fault) ==
  /\ ShowsEmployeeDashboard(uid)
  /\ LET payload == StatusPayload(newStatus, clientNow)
         r == UpdateTasks(uid, taskId, payload, fault)
     IN /\ Len(r.history) <= MaxHistory
        /\ tasks' = r.tasks
        /\ task_history' = r.history
        /\ view' = IF r.error = NULL
                   THEN [view EXCEPT ![uid] =
                           Listing(OrderByDeadline(EmployeeFetchTasks(uid, r.tasks), r.tasks), r.tasks)]
                   ELSE view
        /\ call' = [CallOf("updateTaskStatus", uid, taskId, newStatus) EXCEPT
                      !.rows = r.rows, !.toast = Toast(r.error)]
  /\ UNCHANGED <<users, profiles, now, stats>>

\* EmployeeDetailsDialog.updateTaskStatus, with onTaskUpdate() =
\* ManagerDashboard.fetchTasks.
EmployeeDetailsDialog_updateTaskStatus(uid, taskId, newStatus, clientNow, fault) ==
  /\ ShowsManagerDashboard(uid)
  /\ LET payload == StatusPayload(newStatus, clientNow)
         r == UpdateTasks(uid, taskId, payload, fault)
     IN /\ Len(r.history) <= MaxHistory
        /\ tasks' = r.tasks
        /\ task_history' = r.history
        /\ view' = IF r.error = NULL
                   THEN [view EXCEPT ![uid] =
                           Listing(OrderByCreatedAtDesc(ManagerFetchTasks(uid, r.tasks), r.tasks), r.tasks)]
                   ELSE view
        /\ call' = [CallOf("updateTaskStatus", uid, taskId, newStatus) EXCEPT
                      !.rows = r.rows, !.toast = Toast(r.error)]
  /\ UNCHANGED <<users, profiles, now, stats>>

\* The dialog never refuses a start date for being after the deadline.
StartAfterDeadline_Never(start_date, deadline_date) == FALSE

\* new Date(formData.start_date) > new Date(formData.deadline_date)
StartAfterDeadline(start_date, deadline_date) ==
  DateInstant(start_date) > DateInstant(deadline_date)

\* AddTaskDialog.handleSubmit, with onSuccess() = ManagerDashboard.fetchTasks.
AddTaskDialog_handleSubmit(uid, formData) ==
  /\ uid \in users
  /\ Len(tasks) < MaxTasks
  /\ LET row == [assigned_to |-> formData.assigned_to,
                 assigned_by |-> ProfileIdOf(uid),
                 start_date |-> formData.start_date[1],
                 deadline_date |-> formData.deadline_date[1],
                 status |-> "not_started"]
         c == CallOf("createTask", uid, 0, NULL)
     IN IF \/ formData.title = "" \/ formData.assigned_to = ""
           \/ formData.start_date = None \/ formData.deadline_date = None
        THEN /\ call' = [c EXCEPT !.toast = "Error",
                                  !.description = "Please fill in all required fields"]
             /\ UNCHANGED <<tasks, view>>
        ELSE IF StartAfterDeadline(formData.start_date[1], formData.deadline_date[1])
        THEN /\ call' = [c EXCEPT !.toast = "Error",
                                  !.description = "Start date cannot be after deadline date"]
             /\ UNCHANGED <<tasks, view>>
        ELSE LET r == InsertTasks(uid, row)
             IN /\ tasks' = r.tasks
                /\ view' = IF r.error = NULL
                           THEN [view EXCEPT ![uid] =
                                   Listing(OrderByCreatedAtDesc(ManagerFetchTasks(uid, r.tasks), r.tasks), r.tasks)]
                           ELSE view
                /\ call' = [c EXCEPT !.rows = IF r.error = NULL THEN 1 ELSE 0,
                                     !.toast = Toast(r.error),
                                     !.description = IF r.error = NULL
                                                     THEN "Task assigned successfully"
                                                     ELSE r.error]
  /\ UNCHANGED <<users, profiles, task_history, now, stats>>

\* AddEmployeeDialog.handleSubmit for the k-th username; `fault` is a
\* storage failure of the profile insert.
AddEmployeeDialog_handleSubmit(uid, k, filled, fault) ==
  /\ uid \in users
  /\ LET c == CallOf("createEmployee", uid, 0, NULL)
     IN IF ~ filled
        THEN /\ call' = [c EXCEPT !.toast = "Error"]
             /\ UNCHANGED <<users, profiles>>
        ELSE LET a == SignUp(k)
             IN IF a.error # NULL
                THEN /\ call' = [c EXCEPT !.toast = "Error"]
                     /\ UNCHANGED <<users, profiles>>
                ELSE LET r == IF fault
                               THEN [error |-> "53000", profiles |-> profiles]
                               ELSE InsertProfiles(uid, [user_id |-> a.user,
                                                         role |-> "employee"])
                     IN /\ users' = a.users
                        /\ profiles' = r.profiles
                        /\ call' = [c EXCEPT !.rows = IF r.error = NULL THEN 1 ELSE 0,
                                             !.toast = Toast(r.error)]
  /\ UNCHANGED <<tasks, task_history, now, view, stats>>

\* A request straight to the store, outside the dashboards: any signed-in
\* user may send UPDATE public.tasks SET payload WHERE id = taskId.
ApiUpdateTasks(uid, taskId, payload) ==
  /\ uid \in users
  /\ LET r == UpdateTasks(uid, taskId, payload, FALSE)
     IN /\ Len(r.history) <= MaxHistory
        /\ tasks' = r.tasks
        /\ task_history' = r.history
        /\ call' = [NoCall EXCEPT !.op = "ApiUpdateTasks", !.uid = uid,
                                  !.id = taskId, !.rows = r.rows]
  /\ UNCHANGED <<users, profiles, now, view, stats>>

\* A request straight to the store: UPDATE public.profiles SET payload
\* WHERE id = pid.
ApiUpdateProfiles(uid, pid, payload) ==
  /\ uid \in users
  /\ LET r == UpdateProfiles(uid, pid, payload)
     IN /\ profiles' = r.profiles
        /\ call' = [NoCall EXCEPT !.op = "ApiUpdateProfiles", !.uid = uid,
                                  !.rows = r.rows]
  /\ UNCHANGED <<users, tasks, task_history, now, view, stats>>

\* EmployeeDashboard.fetchTasks; `fault` is an error returned by the read:
\* if (!error && data) setTasks(data), and nothing is shown either way.
EmployeeDashboard_fetchTasks(uid, fault) ==
  /\ ShowsEmployeeDashboard(uid)
  /\ view' = IF fault THEN view
             ELSE [view EXCEPT ![uid] =
                     Listing(OrderByDeadline(EmployeeFetchTasks(uid, tasks), tasks), tasks)]
  /\ call' = [NoCall EXCEPT !.op = "fetchTasks", !.uid = uid]
  /\ UNCHANGED <<users, profiles, tasks, task_history, now, stats>>

\* ManagerDashboard.fetchTasks; `fault` is an error returned by the read.
ManagerDashboard_fetchTasks(uid, fault) ==
  /\ ShowsManagerDashboard(uid)
  /\ view' = IF fault THEN view
             ELSE [view EXCEPT ![uid] =
                     Listing(OrderByCreatedAtDesc(ManagerFetchTasks(uid, tasks), tasks), tasks)]
  /\ call' = [NoCall EXCEPT !.op = "fetchTasks", !.uid = uid]
  /\ UNCHANGED <<users, profiles, tasks, task_history, now, stats>>

\* EmployeeDashboard renders the figures of the tasks its fetch returns.
EmployeeDashboard_getTaskStats(uid) ==
  /\ ShowsEmployeeDashboard(uid)
  /\ LET st == getTaskStats(Rows(EmployeeFetchTasks(uid, tasks), tasks))
     IN stats' = [by |-> "EmployeeDashboard",
                  completionRate |-> st.completionRate,
                  onTimeRate |-> st.onTimeRate]
  /\ UNCHANGED <<users, profiles, tasks, task_history, now, view, call>>

\* EmployeeDetailsDialog, opened by a manager on an employee, renders the
\* figures of that employee's tasks among those the manager's fetch returns.
EmployeeDetailsDialog_getTaskStats(uid, employeeId) ==
  /\ ShowsManagerDashboard(uid)
  /\ LET st == getTaskStats(AssignedTo(employeeId,
                               Rows(ManagerFetchTasks(uid, tasks), tasks)))
     IN stats' = [by |-> "EmployeeDetailsDialog",
                  completionRate |-> st.completionRate,
                  onTimeRate |-> st.onTimeRate]
  /\ UNCHANGED <<users, profiles, tasks, task_history, now, view, call>>

\* ManagerDashboard renders an employee's card: getEmployeeProgress and
\* getOnTimeCompletionRate.
ManagerDashboard_getEmployeeProgress(uid, employeeId) ==
  /\ ShowsManagerDashboard(uid)
  /\ LET rows == Rows(ManagerFetchTasks(uid, tasks), tasks)
     IN stats' = [by |-> "ManagerDashboard",
                  completionRate |-> getEmployeeProgress(employeeId, rows),
                  onTimeRate |-> getOnTimeCompletionRate(employeeId, rows)]
  /\ UNCHANGED <<users, profiles, tasks, task_history, now, view, call>>

\* The server clock advances.
Tick ==
  /\ now < MaxTime
  /\ now' = now + 1
  /\ UNCHANGED <<users, profiles, tasks, task_history, view, call, stats>>

\* ManagerDashboard.fetchEmployees: .eq('role', 'employee'), the choices of
\* the dialog's "Assign To".
FetchEmployees == {p.id : p \in {q \in profiles : q.role = "employee"}}

TaskForms ==
  [title : {"", "T"}, assigned_to : {""} \cup FetchEmployees,
   start_date : {None} \cup {Some(d) : d \in Days},
   deadline_date : {None} \cup {Some(d) : d \in Days}]

Next ==
  \/ \E uid \in UserIds, id \in TaskIds, s \in task_status, t \in Times, fault \in BOOLEAN :
       EmployeeDashboard_updateTaskStatus(uid, id, s, t, fault)
  \/ \E uid \in UserIds, id \in TaskIds, s \in task_status, t \in Times, fault \in BOOLEAN :
       EmployeeDetailsDialog_updateTaskStatus(uid, id, s, t, fault)
  \/ \E uid \in UserIds, f \in TaskForms : AddTaskDialog_handleSubmit(uid, f)
  \/ \E uid \in UserIds, k \in 1..MaxUsers, filled \in BOOLEAN, fault \in BOOLEAN :
       AddEmployeeDialog_handleSubmit(uid, k, filled, fault)
  \/ \E uid \in UserIds, fault \in BOOLEAN : EmployeeDashboard_fetchTasks(uid, fault)
  \/ \E uid \in UserIds, fault \in BOOLEAN : ManagerDashboard_fetchTasks(uid, fault)
  \/ Tick

Spec == Init /\ [][Next]_vars

\* Creating tasks and employees, together with the updates of public.tasks
\* the policies admit from any signed-in user.
TaskPayloads ==
  {[assigned_to |-> p] : p \in ProfileIds} \cup
  {[assigned_by |-> p] : p \in ProfileIds} \cup
  {[start_date |-> d] : d \in Days} \cup
  {[deadline_date |-> d] : d \in Days}

StoreNext ==
  \/ \E uid \in UserIds, f \in TaskForms : AddTaskDialog_handleSubmit(uid, f)
  \/ \E uid \in UserIds, k \in 1..MaxUsers, filled \in BOOLEAN, fault \in BOOLEAN :
       AddEmployeeDialog_handleSubmit(uid, k, filled, fault)
  \/ \E uid \in UserIds, id \in TaskIds, payload \in TaskPayloads :
       ApiUpdateTasks(uid, id, payload)

SpecStore == Init /\ [][StoreNext]_vars

\* The dashboards' submissions together with the updates of public.profiles
\* the policies admit.
ProfilePayloads == {[is_active |-> b] : b \in BOOLEAN}

AdminNext ==
  \/ \E uid \in UserIds, id \in TaskIds, s \in task_status, t \in Times, fault \in BOOLEAN :
       EmployeeDashboard_updateTaskStatus(uid, id, s, t, fault)
  \/ \E uid \in UserIds, id \in TaskIds, s \in task_status, t \in Times, fault \in BOOLEAN :
       EmployeeDetailsDialog_updateTaskStatus(uid, id, s, t, fault)
  \/ \E uid \in UserIds, f \in TaskForms : AddTaskDialog_handleSubmit(uid, f)
  \/ \E uid \in UserIds, k \in 1..MaxUsers, filled \in BOOLEAN, fault \in BOOLEAN :
       AddEmployeeDialog_handleSubmit(uid, k, filled, fault)
  \/ \E uid \in UserIds, pid \in ProfileIds, payload \in ProfilePayloads :
       ApiUpdateProfiles(uid, pid, payload)

SpecAdmin == Init /\ [][AdminNext]_vars

\* The dialogs' submissions and the employee dashboard's status updates,
\* together with the changes of role the profiles UPDATE policy admits.
RolePayloads == {[role |-> r] : r \in user_role}

RolesNext ==
  \/ \E uid \in UserIds, id \in TaskIds, s \in task_status, t \in Times, fault \in BOOLEAN :
       EmployeeDashboard_updateTaskStatus(uid, id, s, t, fault)
  \/ \E uid \in UserIds, f \in TaskForms : AddTaskDialog_handleSubmit(uid, f)
  \/ \E uid \in UserIds, k \in 1..MaxUsers, filled \in BOOLEAN, fault \in BOOLEAN :
       AddEmployeeDialog_handleSubmit(uid, k, filled, fault)
  \/ \E uid \in UserIds, pid \in ProfileIds, payload \in RolePayloads :
       ApiUpdateProfiles(uid, pid, payload)

SpecRoles == Init /\ [][RolesNext]_vars

\* The dashboards' lists over a table of tasks already created: up to
\* MaxListed tasks the seeded manager assigned to the seeded employee, none
\* started yet, in the order they were created.
MaxListed == 3

CreatedRows ==
  {[assigned_to |-> "p2", assigned_by |-> "p1", status |-> "not_started",
    start_date |-> s, deadline_date |-> d, completed_at |-> None] :
     s \in Days, d \in Days}

CreatedTables ==
  UNION {[1..n -> {r \in CreatedRows : ~ StartAfterDeadline(r.start_date, r.deadline_date)}] :
           n \in 0..MaxListed}

\* The table with each row given its position as id.
WithIds(tbl) ==
  [i \in DOMAIN tbl |->
     [id |-> i, assigned_to |-> tbl[i].assigned_to, assigned_by |-> tbl[i].assigned_by,
      status |-> tbl[i].status, start_date |-> tbl[i].start_date,
      deadline_date |-> tbl[i].deadline_date, completed_at |-> tbl[i].completed_at]]

InitLists ==
  /\ users = {"u1", "u2"}
  /\ profiles = {[id |-> "p1", user_id |-> "u1", role |-> "manager", is_active |-> TRUE],
                 [id |-> "p2", user_id |-> "u2", role |-> "employee", is_active |-> TRUE]}
  /\ \E tbl \in CreatedTables : tasks = WithIds(tbl)
  /\ task_history = <<>>
  /\ now = 0
  /\ view = [u \in UserIds |-> <<>>]
  /\ call = NoCall
  /\ stats = NoStats

ListsNext ==
  \/ \E uid \in UserIds, fault \in BOOLEAN : EmployeeDashboard_fetchTasks(uid, fault)
  \/ \E uid \in UserIds, fault \in BOOLEAN : ManagerDashboard_fetchTasks(uid, fault)

SpecLists == InitLists /\ [][ListsNext]_vars

\* The dashboards' figures over the tasks of the seeded employee: up to
\* MaxRows tasks, of which some were finished by the start of their
\* deadline day, some later, some are finished with completed_at cleared
\* (an update the policy admits from the assignee) and some are in progress.
MaxRows == 40

StatsRow(kind) ==
  [assigned_to |-> "p2", assigned_by |-> "p1",
   status |-> IF kind = "open" THEN "in_progress" ELSE "finished",
   start_date |-> 0, deadline_date |-> 0,
   completed_at |-> IF kind = "onTime" THEN Some(0)
                    ELSE IF kind = "late" THEN Some(MaxTime)
                    ELSE None]

StatsTable(onTime, late, unstamped, open) ==
  WithIds([i \in 1..(onTime + late + unstamped + open) |->
             StatsRow(IF i <= onTime THEN "onTime"
                      ELSE IF i <= onTime + late THEN "late"
                      ELSE IF i <= onTime + late + unstamped THEN "unstamped"
                      ELSE "open")])

\* The entry the trigger wrote when the employee moved each task to the
\* status it has.
StatsHistory(tbl) ==
  [i \in DOMAIN tbl |->
     [task_id |-> i, old_status |-> "not_started", new_status |-> tbl[i].status,
      changed_by |-> "p2",
      changed_at |-> IF tbl[i].completed_at = Some(0) THEN 0 ELSE MaxTime]]

InitStats ==
  /\ users = {"u1", "u2"}
  /\ profiles = {[id |-> "p1", user_id |-> "u1", role |-> "manager", is_active |-> TRUE],
                 [id |-> "p2", user_id |-> "u2", role |-> "employee", is_active |-> TRUE]}
  /\ \E onTime \in 0..MaxRows, late \in 0..MaxRows, unstamped \in 0..1, open \in 0..MaxRows :
       /\ onTime + late + unstamped + open <= MaxRows
       /\ tasks = StatsTable(onTime, late, unstamped, open)
  /\ task_history = StatsHistory(tasks)
  /\ now = MaxTime
  /\ view = [u \in UserIds |-> <<>>]
  /\ call = NoCall
  /\ stats = NoStats

StatsNext ==
  \/ \E uid \in UserIds : EmployeeDashboard_getTaskStats(uid)
  \/ \E uid \in UserIds, employeeId \in FetchEmployees :
       EmployeeDetailsDialog_getTaskStats(uid, employeeId)
  \/ \E uid \in UserIds, employeeId \in FetchEmployees :
       ManagerDashboard_getEmployeeProgress(uid, employeeId)

SpecStats == InitStats /\ [][StatsNext]_vars

\* ----------------------------------------------------------------- claims
\* The step is one run of either dashboard's updateTaskStatus, with the
\* client clock t and the storage outcome fault (`call` holds who ran it,
\* on which task and with which status).
UpdateStatusStep(t, fault) ==
  /\ call'.op = "updateTaskStatus"
  /\ \/ EmployeeDashboard_updateTaskStatus(call'.uid, call'.id, call'.status, t, fault)
     \/ EmployeeDetailsDialog_updateTaskStatus(call'.uid, call'.id, call'.status, t, fault)

\* The positions of task id's entries in history table h.
EntriesOf(h, id) == {k \in DOMAIN h : h[k].task_id = id}

\* C1: in every state reached by createTask and updateStatus runs, each
\* task has completed_at set exactly when its status is finished.
C1_CompletedIffFinished ==
  \A i \in DOMAIN tasks :
    (tasks[i].completed_at # None) <=> (tasks[i].status = "finished")

\* A task that was finished (stamped) and reopened (cleared).
C1_Witness ==
  \E i \in DOMAIN tasks :
    /\ tasks[i].status # "finished" /\ tasks[i].completed_at = None
    /\ \E k \in EntriesOf(task_history, i) : task_history[k].old_status = "finished"

\* C2: an accepted updateStatus call adds exactly one history entry to its
\* task when the new status differs from the stored one and none when it is
\* the same, so a task's entries count the calls that changed its status.
C2_OneEntryPerActualChange ==
  [][\A t \in Times, fault \in BOOLEAN :
       UpdateStatusStep(t, fault) =>
         LET id == call'.id
             r == UpdateTasks(call'.uid, id, StatusPayload(call'.status, t), fault)
             changed == r.error = NULL /\ r.rows = 1 /\ tasks[id].status # call'.status
         IN /\ Cardinality(EntriesOf(task_history', id)) =
                 Cardinality(EntriesOf(task_history, id)) + (IF changed THEN 1 ELSE 0)
            /\ Len(task_history') = Len(task_history) + (IF changed THEN 1 ELSE 0)]_vars

\* A task with two entries whose latest call repeated the stored status.
C2_Witness ==
  /\ call.op = "updateTaskStatus" /\ call.rows = 1 /\ call.toast = "Success"
  /\ call.was = call.status
  /\ Cardinality(EntriesOf(task_history, call.id)) = 2

\* C3: an updateStatus call whose new status equals the stored one appends
\* no history entry and leaves completed_at as it was, whatever completed_at
\* the client sent.
C3_SameStatusIsNoOp ==
  [][\A t \in Times, fault \in BOOLEAN :
       ( /\ UpdateStatusStep(t, fault)
         /\ call'.id \in DOMAIN tasks
         /\ tasks[call'.id].status = call'.status )
       => /\ task_history' = task_history
          /\ tasks'[call'.id].completed_at = tasks[call'.id].completed_at]_vars

\* C4: a status-changing updateStatus writes the status, the matching
\* completed_at and exactly one history entry together; when the history
\* insert fails nothing is written and the caller is shown the error; after
\* every step a reader finds each task's status backed by its latest entry
\* and each finished task stamped.
C4_StatusChangeIsAtomic ==
  [][/\ \A t \in Times, fault \in BOOLEAN :
          UpdateStatusStep(t, fault) =>
            LET id == call'.id
                wouldWrite ==
                  UpdateTasks(call'.uid, id, StatusPayload(call'.status, t), FALSE)
            IN /\ call'.toast = "Error" =>
                    tasks' = tasks /\ task_history' = task_history
               /\ (fault /\ wouldWrite.history # task_history) =>
                    call'.toast = "Error"
               /\ task_history' # task_history =>
                    id \in DOMAIN tasks /\ tasks'[id].status # tasks[id].status
               /\ (id \in DOMAIN tasks /\ tasks'[id].status # tasks[id].status) =>
                    /\ call'.toast = "Success"
                    /\ task_history' = Append(task_history,
                          [task_id |-> id,
                           old_status |-> tasks[id].status,
                           new_status |-> tasks'[id].status,
                           changed_by |-> ProfileIdOf(call'.uid),
                           changed_at |-> now])
                    /\ (tasks'[id].completed_at # None) <=> (tasks'[id].status = "finished")
     /\ \A i \in DOMAIN tasks' :
          /\ tasks'[i].status = "finished" => tasks'[i].completed_at # None
          /\ LET mine == EntriesOf(task_history', i)
                 last == CHOOSE k \in mine : \A j \in mine : j <= k
             IN IF mine = {} THEN tasks'[i].status = "not_started"
                ELSE task_history'[last].new_status = tasks'[i].status]_vars

\* A status change whose history insert failed: the caller saw the error
\* and the task kept the status it had.
C4_Witness ==
  /\ call.op = "updateTaskStatus" /\ call.toast = "Error"
  /\ call.was # NULL /\ call.was # call.status
  /\ tasks[call.id].status = call.was
  /\ task_history # <<>>

\* C5: every commit that changes a task's status appends its own entry,
\* whose old status is the one stored just before that commit (whatever the
\* client had read), and leaves the task with the committed status.
C5_EntryRecordsStoredStatus ==
  [][\A t \in Times, fault \in BOOLEAN :
       UpdateStatusStep(t, fault) =>
         LET id == call'.id
             n == Len(task_history')
         IN /\ ( /\ call'.rows = 1 /\ call'.toast = "Success"
                 /\ tasks[id].status # call'.status ) => n = Len(task_history) + 1
            /\ n > Len(task_history) =>
                 /\ task_history'[n].task_id = id
                 /\ task_history'[n].old_status = tasks[id].status
                 /\ task_history'[n].new_status = call'.status
                 /\ task_history'[n].changed_by = ProfileIdOf(call'.uid)
                 /\ tasks'[id].status = call'.status]_vars

\* Two users read the same status; one committed a change, then the other
\* committed a change against the status it no longer was.
C5_Witness ==
  /\ call.op = "updateTaskStatus" /\ call.rows = 1 /\ call.toast = "Success"
  /\ call.seen # NULL /\ call.seen # call.was /\ call.was # call.status
  /\ Len(task_history) = 2
  /\ task_history[1].task_id = call.id /\ task_history[2].task_id = call.id
  /\ task_history[1].changed_by # task_history[2].changed_by
  /\ task_history[1].old_status = call.seen
  /\ task_history[2].old_status = call.was
  /\ tasks[call.id].status = call.status

\* C6: an employee's updateTaskStatus on a task assigned to someone else
\* shows the caller an error and changes neither the task nor the history.
C6_UnassignedUpdateRejected ==
  [][\A t \in Times, fault \in BOOLEAN :
       ( /\ UpdateStatusStep(t, fault)
         /\ RoleOf(call'.uid) = "employee"
         /\ call'.id \in DOMAIN tasks
         /\ tasks[call'.id].assigned_to # ProfileIdOf(call'.uid) )
       => /\ call'.toast = "Error"
          /\ tasks' = tasks
          /\ task_history' = task_history]_vars

\* C7: an update by an employee that changes a task's assignee, assigner,
\* start date or deadline date leaves the task as it was.
C7_EmployeeWritesStatusOnly ==
  [][\A payload \in TaskPayloads :
       ( /\ call'.op = "ApiUpdateTasks"
         /\ ApiUpdateTasks(call'.uid, call'.id, payload)
         /\ RoleOf(call'.uid) = "employee"
         /\ call'.id \in DOMAIN tasks
         /\ SetColumns(tasks[call'.id], payload) # tasks[call'.id] )
       => tasks' = tasks]_vars

\* The step is one run of AddTaskDialog.handleSubmit by call'.uid.
CreateTaskStep ==
  /\ call'.op = "createTask"
  /\ \E f \in TaskForms : AddTaskDialog_handleSubmit(call'.uid, f)

\* The step is one run of AddEmployeeDialog.handleSubmit by call'.uid.
CreateEmployeeStep ==
  /\ call'.op = "createEmployee"
  /\ \E k \in 1..MaxUsers, filled \in BOOLEAN, fault \in BOOLEAN :
       AddEmployeeDialog_handleSubmit(call'.uid, k, filled, fault)

\* C8: an actor without a profile, or whose profile has is_active = false,
\* reads no task and no history entry, and a create task, create employee
\* or update status it submits changes nothing in the store.
C8_InactiveActorDenied ==
  [][\A uid \in users :
       ~ ActiveOf(uid) =>
         /\ SelectTasks(uid, tasks) = {}
         /\ SelectTaskHistory(uid) = {}
         /\ ( /\ call'.uid = uid
              /\ \/ \E t \in Times, fault \in BOOLEAN : UpdateStatusStep(t, fault)
                 \/ CreateTaskStep
                 \/ CreateEmployeeStep )
            => UNCHANGED <<users, profiles, tasks, task_history>>]_vars

\* C9: an employee reads exactly the tasks assigned to them and exactly the
\* history entries of those tasks; a manager reads every task and every
\* history entry.
C9_ReadsFollowOwnership ==
  \A uid \in users :
    LET own == {i \in DOMAIN tasks : tasks[i].assigned_to = ProfileIdOf(uid)}
        ownHistory == {k \in DOMAIN task_history :
                         \E i \in own : tasks[i].id = task_history[k].task_id}
    IN /\ RoleOf(uid) = "employee" =>
            /\ SelectTasks(uid, tasks) = own
            /\ EmployeeFetchTasks(uid, tasks) = own
            /\ SelectTaskHistory(uid) = ownHistory
       /\ RoleOf(uid) = "manager" =>
            /\ ManagerFetchTasks(uid, tasks) = DOMAIN tasks
            /\ SelectTaskHistory(uid) = DOMAIN task_history

\* Two employees, and a task with history assigned to one of them.
C9_Witness ==
  \E u \in users, v \in users :
    /\ u # v /\ RoleOf(u) = "employee" /\ RoleOf(v) = "employee"
    /\ \E i \in DOMAIN tasks :
         /\ tasks[i].assigned_to = ProfileIdOf(u)
         /\ EntriesOf(task_history, i) # {}

\* C10: a task row or a profile row is created, and the dialog reports
\* success, only when the submitting user's profile has role manager; an
\* employee's attempt creates neither.
C10_OnlyManagersCreate ==
  [][/\ CreateTaskStep =>
          /\ (tasks' # tasks \/ call'.toast = "Success") => RoleOf(call'.uid) = "manager"
          /\ RoleOf(call'.uid) = "employee" => tasks' = tasks /\ profiles' = profiles
     /\ CreateEmployeeStep =>
          /\ (profiles' # profiles \/ call'.toast = "Success") => RoleOf(call'.uid) = "manager"
          /\ RoleOf(call'.uid) = "employee" => tasks' = tasks /\ profiles' = profiles]_vars

\* An employee submitted a new employee: the account exists, the profile
\* insert was refused and the dialog showed the error.
C10_Witness ==
  /\ call.op = "createEmployee" /\ call.toast = "Error" /\ call.rows = 0
  /\ RoleOf(call.uid) = "employee"
  /\ \E u \in users : ~ HasProfile(u)

\* C11: an employee reads no profile of another employee: of the profiles
\* with role employee, the store returns to an employee only their own.
C11_EmployeesReadOwnProfileOnly ==
  \A uid \in users :
    RoleOf(uid) = "employee" =>
      {p \in SelectProfiles(uid) : p.role = "employee"} \subseteq {ProfileOf(uid)}

\* C12: a createTask whose start date is after its deadline date shows an
\* error (the date message when the form is otherwise filled) and inserts
\* no row, so every row createTask inserts has start_date <= deadline_date.
C12_StartAfterDeadlineRejected ==
  [][\A f \in TaskForms :
       ( /\ call'.op = "createTask"
         /\ AddTaskDialog_handleSubmit(call'.uid, f) )
       => /\ ( /\ f.start_date # None /\ f.deadline_date # None
               /\ f.start_date[1] > f.deadline_date[1] )
             => /\ call'.toast = "Error"
                /\ tasks' = tasks
                /\ (f.title # "" /\ f.assigned_to # "") =>
                     call'.description = "Start date cannot be after deadline date"
          /\ \A i \in DOMAIN tasks' \ DOMAIN tasks :
               tasks'[i].start_date <= tasks'[i].deadline_date]_vars

\* A manager's submission was refused for its dates and no task exists.
C12_Witness ==
  /\ call.op = "createTask" /\ call.toast = "Error"
  /\ call.description = "Start date cannot be after deadline date"
  /\ RoleOf(call.uid) = "manager"
  /\ tasks = <<>>

\* C13: every row createTask inserts is assigned to a profile that exists,
\* has role employee and is active.
C13_AssigneeIsActiveEmployee ==
  [][CreateTaskStep =>
       \A i \in DOMAIN tasks' \ DOMAIN tasks :
         \E p \in profiles : /\ p.id = tasks'[i].assigned_to
                             /\ p.role = "employee"
                             /\ p.is_active]_vars

\* C14: the earliest history entry of every task has old status null.
C14_FirstEntryOldStatusNull ==
  \A i \in DOMAIN tasks :
    LET mine == EntriesOf(task_history, i)
    IN mine # {} =>
         task_history[CHOOSE k \in mine : \A j \in mine : k <= j].old_status = NULL

\* C15: an updateStatus that takes a task from a status other than finished
\* to finished stores the server clock as completed_at, whatever clock the
\* client sent.
C15_CompletedAtIsServerClock ==
  [][\A t \in Times, fault \in BOOLEAN :
       ( /\ UpdateStatusStep(t, fault)
         /\ call'.id \in DOMAIN tasks
         /\ tasks[call'.id].status # "finished"
         /\ tasks'[call'.id].status = "finished" )
       => tasks'[call'.id].completed_at = Some(now)]_vars

\* A task was just finished at server time MaxTime (a client clock of 0 was
\* among the calls that lead here).
C15_Witness ==
  /\ call.op = "updateTaskStatus" /\ call.status = "finished"
  /\ call.toast = "Success" /\ call.rows = 1
  /\ call.was \in {"not_started", "in_progress"}
  /\ now = MaxTime
  /\ tasks[call.id].completed_at = Some(MaxTime)
  /\ task_history[Len(task_history)].changed_at = MaxTime

\* C16: every step keeps the history entries it found, in place and
\* unchanged; entries are only added after them.
C16_HistoryAppendOnly ==
  [][/\ Len(task_history') >= Len(task_history)
     /\ \A k \in DOMAIN task_history : task_history'[k] = task_history[k]]_vars

\* An entry written at time 0 is still first after a later change, a
\* createEmployee and a read.
C16_Witness ==
  /\ Len(task_history) = 2
  /\ task_history[1].changed_at = 0 /\ task_history[2].changed_at = MaxTime
  /\ Cardinality(profiles) = 3
  /\ \E u \in users : view[u] # <<>>

\* C17: an updateStatus for an id no task has shows the caller an error and
\* changes no task and no history entry.
C17_UnknownTaskIsError ==
  [][\A t \in Times, fault \in BOOLEAN :
       ( /\ UpdateStatusStep(t, fault)
         /\ call'.id \notin DOMAIN tasks )
       => /\ call'.toast = "Error"
          /\ tasks' = tasks
          /\ task_history' = task_history]_vars

\* C18: every list a dashboard holds is in ascending order of deadline date.
C18_ListsOrderedByDeadline ==
  \A uid \in users :
    \A k \in 1..(Len(view[uid]) - 1) :
      tasks[view[uid][k].id].deadline_date <= tasks[view[uid][k + 1].id].deadline_date

\* The tasks a rendered figure is about: those of the seeded employee.
FiguredTasks == {i \in DOMAIN tasks : tasks[i].assigned_to = "p2"}

\* C19: the completion rate rendered is 100 * finished / total rounded
\* half up to an integer, 0 for no tasks, and lies in 0..100.
C19_CompletionRateRoundsHalfUp ==
  stats.by # "none" =>
    LET total == Cardinality(FiguredTasks)
        finished == Cardinality({i \in FiguredTasks : tasks[i].status = "finished"})
    IN /\ stats.completionRate \in 0..100
       /\ total = 0 => stats.completionRate = 0
       /\ total > 0 =>
            stats.completionRate = ((200 * finished) + total) \div (2 * total)

C22_ReadErrorsAreShown ==
  [][/\ ( /\ call'.op = "fetchTasks"
          /\ \/ EmployeeDashboard_fetchTasks(call'.uid, TRUE)
             \/ ManagerDashboard_fetchTasks(call'.uid, TRUE) )
        => call'.toast = "Error"
     /\ \A t \in Times :
          ( /\ UpdateStatusStep(t, TRUE)
            /\ UpdateTasks(call'.uid, call'.id, StatusPayload(call'.status, t), TRUE).error # NULL )
          => call'.toast = "Error"]_vars

\* C23: the entries of each task, in the order written (which is their
\* order by changed_at), each change the status, each start from the status
\* the one before ended in, and end in the task's status; a task without
\* entries is not_started.
C23_HistoryIsChain ==
  /\ \A k \in 1..(Len(task_history) - 1) :
       task_history[k].changed_at <= task_history[k + 1].changed_at
  /\ \A i \in DOMAIN tasks :
       LET mine == EntriesOf(task_history, i)
       IN /\ \A k \in mine : task_history[k].old_status # task_history[k].new_status
          /\ \A j \in mine, k \in mine :
               (j < k /\ ~ \E m \in mine : j < m /\ m < k) =>
                 task_history[k].old_status = task_history[j].new_status
          /\ mine = {} => tasks[i].status = "not_started"
          /\ mine # {} =>
               task_history[CHOOSE k \in mine : \A j \in mine : j <= k].new_status
                 = tasks[i].status

\* A task taken to in_progress and later to finished: two entries, linked.
C23_Witness ==
  /\ Len(task_history) = 2
  /\ task_history[1].task_id = task_history[2].task_id
  /\ task_history[1].old_status = "not_started"
  /\ task_history[1].new_status = "in_progress"
  /\ task_history[2].old_status = "in_progress"
  /\ task_history[2].new_status = "finished"
  /\ task_history[1].changed_at < task_history[2].changed_at
  /\ tasks[task_history[2].task_id].status = "finished"

\* C24: in each of the three places the on-time rate is rendered, a
\* stamped finished task counts as on time exactly when completed_at is at
\* or before the first instant of its deadline day: the rate is 100 exactly
\* when all stamped tasks are, 0 exactly when none is, and so 0 when all
\* were finished later within their deadline day.
C24_DeadlineIsStartOfDay ==
  stats.by # "none" =>
    LET stamped == {i \in FiguredTasks : /\ tasks[i].status = "finished"
                                         /\ tasks[i].completed_at # None}
        byStart == {i \in stamped :
                      tasks[i].completed_at[1] <= tasks[i].deadline_date * TicksPerDay}
        laterThatDay == {i \in stamped :
                           /\ tasks[i].completed_at[1] > tasks[i].deadline_date * TicksPerDay
                           /\ tasks[i].completed_at[1] < (tasks[i].deadline_date + 1) * TicksPerDay}
    IN stamped # {} =>
         /\ stats.onTimeRate = 100 <=> byStart = stamped
         /\ stats.onTimeRate = 0 <=> byStart = {}
         /\ laterThatDay = stamped => stats.onTimeRate = 0

\* A single task finished during its deadline day, after the day began:
\* the details dialog shows 0% on time.
C24_Witness ==
  /\ stats.by = "EmployeeDetailsDialog" /\ stats.onTimeRate = 0
  /\ Len(tasks) = 1
  /\ tasks[1].status = "finished" /\ tasks[1].completed_at # None
  /\ tasks[1].completed_at[1] > tasks[1].deadline_date * TicksPerDay
  /\ tasks[1].completed_at[1] < (tasks[1].deadline_date + 1) * TicksPerDay

\* C25: after every createEmployee call each account has its profile, of
\* role employee and active, or there is neither.
C25_CreateEmployeeAllOrNothing ==
  [][CreateEmployeeStep =>
       \A u \in users' \ users :
         \E p \in profiles' : p.user_id = u /\ p.role = "employee" /\ p.is_active]_vars

====
